---------------------------- MODULE Spec2Model ----------------------------
(***************************************************************************)
(* House price prediction console session: src/main.py (menu loop) driving *)
(* src/model.py (HousePriceModel).  Console strings typed by the user are  *)
(* sequences of one-character strings; column names, messages and log      *)
(* fields are strings.  Feature values are floats kept in tenths, prices   *)
(* in cents.                                                               *)
(***************************************************************************)
EXTENDS Integers, Sequences, FiniteSets, TLC

VARIABLES
    csv,         \* the file at csv_path on disk (absent, or a table)
    data_file,   \* the file at data_file on disk (absent, or its lines)
    df,          \* self.df
    model,       \* self.model
    features,    \* self.features
    r2,          \* self.r2
    is_trained,  \* self.is_trained
    pc,          \* where the process is: the input() it blocks on, or ended
    user_input,  \* select_features: the stripped line read at ">>"
    fi,          \* predict_price: 1-based position of `feat` in self.features
    values,      \* predict_price: the dict `values`, in insertion order
    ret,         \* what the last predict_price call returned
    out,         \* the last thing printed on the console
    reads,       \* how many times pd.read_csv(csv_path) has been called
    done         \* the predict_price calls that returned a price, in order

vars == <<csv, data_file, df, model, features, r2, is_trained, pc,
          user_input, fi, values, ret, out, reads, done>>

-----------------------------------------------------------------------------
(* Bounds of the model *)

\* longest line typed at the feature-selection prompt, in characters
MaxLen == 3

\* most predictions completed in one session
MaxPred == 2

-----------------------------------------------------------------------------
(* Python values *)

None == [tag |-> "None"]

DEFAULT_FEATURES ==
    <<"bedrooms", "bathrooms", "sqft_living", "sqft_lot", "floors",
      "waterfront", "view", "condition", "grade", "yr_built">>

exclude == {"id", "date", "price"}

Range(s) == {s[i] : i \in 1..Len(s)}

RECURSIVE SumSeq(_)
SumSeq(s) == IF s = <<>> THEN 0 ELSE Head(s) + SumSeq(Tail(s))

-----------------------------------------------------------------------------
(* str.strip, str.split, int() and float() on typed lines *)

Whitespace == {" "}

RECURSIVE LStrip(_)
LStrip(s) ==
    IF s # <<>> /\ Head(s) \in Whitespace THEN LStrip(Tail(s)) ELSE s

RECURSIVE RStrip(_)
RStrip(s) ==
    IF s # <<>> /\ s[Len(s)] \in Whitespace
    THEN RStrip(SubSeq(s, 1, Len(s) - 1)) ELSE s

strip(s) == RStrip(LStrip(s))

\* s.split(','): always at least one token, empty tokens kept
RECURSIVE SplitFrom(_, _)
SplitFrom(s, cur) ==
    IF s = <<>> THEN <<cur>>
    ELSE IF Head(s) = "," THEN <<cur>> \o SplitFrom(Tail(s), <<>>)
    ELSE SplitFrom(Tail(s), Append(cur, Head(s)))

split(s) == SplitFrom(s, <<>>)

DigitVal ==
    [c \in {"0", "1", "2", "3", "4", "5", "6", "7", "8", "9"} |->
        CASE c = "0" -> 0 [] c = "1" -> 1 [] c = "2" -> 2 [] c = "3" -> 3
          [] c = "4" -> 4 [] c = "5" -> 5 [] c = "6" -> 6 [] c = "7" -> 7
          [] c = "8" -> 8 [] c = "9" -> 9]

IsDigits(s) == s # <<>> /\ \A i \in 1..Len(s) : s[i] \in DOMAIN DigitVal

RECURSIVE DecVal(_)
DecVal(s) ==
    IF s = <<>> THEN 0
    ELSE 10 * DecVal(SubSeq(s, 1, Len(s) - 1)) + DigitVal[s[Len(s)]]

\* int(tok): surrounding whitespace ignored, one optional sign, then digits;
\* anything else raises ValueError (ok = FALSE)
int(tok) ==
    LET t    == strip(tok)
        sgn  == t # <<>> /\ Head(t) \in {"+", "-"}
        body == IF sgn THEN Tail(t) ELSE t
    IN  IF IsDigits(body)
        THEN [ok |-> TRUE,
              val |-> IF sgn /\ Head(t) = "-" THEN 0 - DecVal(body) ELSE DecVal(body)]
        ELSE [ok |-> FALSE, val |-> 0]

\* float(line) in tenths, for the lines typed in this model: surrounding
\* whitespace ignored, digits, optionally a point and one more digit; a line
\* of letters or an empty line raises ValueError (ok = FALSE).  Signs,
\* exponents, nan and inf are never typed here.
float(line) ==
    LET t   == strip(line)
        dot == {i \in 1..Len(t) : t[i] = "."}
    IN  IF IsDigits(t) THEN [ok |-> TRUE, val |-> 10 * DecVal(t)]
        ELSE IF /\ Cardinality(dot) = 1
                /\ LET d == CHOOSE i \in dot : TRUE
                   IN  /\ IsDigits(SubSeq(t, 1, d - 1))
                       /\ d + 1 = Len(t)
                       /\ IsDigits(SubSeq(t, d + 1, Len(t)))
        THEN LET d == CHOOSE i \in dot : TRUE
             IN  [ok |-> TRUE,
                  val |-> 10 * DecVal(SubSeq(t, 1, d - 1)) + DigitVal[t[Len(t)]]]
        ELSE [ok |-> FALSE, val |-> 0]

-----------------------------------------------------------------------------
(* The dataset file and pandas *)

\* A table: its columns in file order.  dtype is the pandas dtype family of
\* the column, nan says that some cell is missing, w stands for what the
\* column's data contribute to a least-squares fit.
Table(names, objectCols, nanCols) ==
    [tag |-> "DataFrame",
     columns |-> [i \in 1..Len(names) |->
                    [name  |-> names[i],
                     dtype |-> IF names[i] \in objectCols THEN "object" ELSE "number",
                     nan   |-> names[i] \in nanCols,
                     w     |-> i]]]

\* the King County file the program is written for
KC ==
    Table(<<"id", "date", "price", "bedrooms", "bathrooms", "sqft_living",
            "sqft_lot", "floors", "waterfront", "view", "condition", "grade",
            "sqft_above", "sqft_basement", "yr_built", "yr_renovated",
            "zipcode", "lat", "long", "sqft_living15", "sqft_lot15">>,
          {"date"}, {})

\* a file of another schema: most default columns are absent
Mini ==
    Table(<<"id", "date", "price", "bedrooms", "sqft_living", "zipcode">>,
          {"date", "zipcode"}, {})

\* the default columns, one of them with missing cells
Dirty ==
    Table(<<"id", "date", "price", "bedrooms", "bathrooms", "sqft_living",
            "sqft_lot", "floors", "waterfront", "view", "condition", "grade",
            "yr_built">>,
          {"date"}, {"sqft_living"})

Missing == [tag |-> "missing"]

Files == {Missing, KC, Mini, Dirty}

ColumnNames(t) == [i \in 1..Len(t.columns) |-> t.columns[i].name]

Column(t, name) ==
    t.columns[CHOOSE i \in 1..Len(t.columns) : t.columns[i].name = name]

\* pd.read_csv(self.csv_path): the table, or FileNotFoundError (ok = FALSE)
read_csv(file) ==
    IF file = Missing THEN [ok |-> FALSE, df |-> None]
    ELSE [ok |-> TRUE, df |-> file]

\* get_numeric_columns on a loaded table
RECURSIVE NumericFrom(_)
NumericFrom(cols) ==
    IF cols = <<>> THEN <<>>
    ELSE (IF Head(cols).dtype = "number" /\ Head(cols).name \notin exclude
          THEN <<Head(cols).name>> ELSE <<>>) \o NumericFrom(Tail(cols))

get_numeric_columns(t) == NumericFrom(t.columns)

-----------------------------------------------------------------------------
(* select_features: the index list *)

indices_of_skipping(line) ==
    LET toks == split(line)
        good == {k \in 1..Len(toks) : int(strip(toks[k])).ok}
        nth(j) == CHOOSE k \in good : Cardinality({g \in good : g <= k}) = j
    IN  [ok |-> TRUE,
         val |-> [j \in 1..Cardinality(good) |-> int(strip(toks[nth(j)])).val]]

\* [int(x.strip()) for x in user_input.split(',')]: ValueError (ok = FALSE)
\* as soon as one token is no integer
indices_of(line) ==
    LET toks == split(line)
        p    == [k \in 1..Len(toks) |-> int(strip(toks[k]))]
    IN  IF \A k \in 1..Len(toks) : p[k].ok
        THEN [ok |-> TRUE, val |-> [k \in 1..Len(toks) |-> p[k].val]]
        ELSE [ok |-> FALSE, val |-> <<>>]

RECURSIVE selected_of_from0(_, _)
selected_of_from0(indices, available) ==
    IF indices = <<>> THEN <<>>
    ELSE (IF 0 <= Head(indices) /\ Head(indices) <= Len(available)
          THEN <<available[IF Head(indices) = 0 THEN Len(available)
                           ELSE Head(indices)]>>
          ELSE <<>>)
         \o selected_of_from0(Tail(indices), available)

\* [available[i - 1] for i in indices if 1 <= i <= len(available)]
RECURSIVE selected_of(_, _)
selected_of(indices, available) ==
    IF indices = <<>> THEN <<>>
    ELSE (IF 1 <= Head(indices) /\ Head(indices) <= Len(available)
          THEN <<available[Head(indices)]>> ELSE <<>>)
         \o selected_of(Tail(indices), available)

select_is_trained_kept(before) == before

\* self.is_trained after select_features
select_is_trained(before) == FALSE

\* the branch select_features takes on the stripped line: the new feature
\* list and the message printed
select_result(line, available) ==
    IF line = <<>>
    THEN [features |-> DEFAULT_FEATURES, msg |-> "Using default features"]
    ELSE LET ix == indices_of(line)
         IN  IF ~ix.ok
             THEN [features |-> DEFAULT_FEATURES,
                   msg |-> "Invalid input - using default features."]
             ELSE LET selected == selected_of(ix.val, available)
                  IN  IF selected = <<>>
                      THEN [features |-> DEFAULT_FEATURES,
                            msg |-> "No valid columns selected - falling back to defaults."]
                      ELSE [features |-> selected, msg |-> "Selected features"]

-----------------------------------------------------------------------------
(* train_model: the library calls *)

\* self.df[self.features] and self.df['price'] raise KeyError for a name
\* that is no column of the table
KeyErrorIn(t, feats) ==
    \/ \E i \in 1..Len(feats) : feats[i] \notin Range(ColumnNames(t))
    \/ "price" \notin Range(ColumnNames(t))

\* LinearRegression.fit raises ValueError on a column of strings or with
\* missing cells
FitErrorIn(t, feats) ==
    \E i \in 1..Len(feats) :
        Column(t, feats[i]).dtype # "number" \/ Column(t, feats[i]).nan

\* LinearRegression(): not fitted yet
Unfitted == [tag |-> "LinearRegression", fitted |-> FALSE,
             feature_names_in |-> <<>>, coef |-> <<>>, intercept |-> 0]

\* the estimator after fit(X_train, y_train) on the columns feats
Fitted(t, feats) ==
    [tag |-> "LinearRegression", fitted |-> TRUE,
     feature_names_in |-> feats,
     coef |-> [i \in 1..Len(feats) |-> Column(t, feats[i]).w],
     intercept |-> 100000]

\* r2_score(y_test, model.predict(X_test)), in ten-thousandths
Score(t, feats) ==
    [tag |-> "float",
     val |-> (500 * SumSeq([i \in 1..Len(feats) |-> Column(t, feats[i]).w])) % 10001]

train_outcome_flag_first(t, feats, old) ==
    IF KeyErrorIn(t, feats) THEN [old EXCEPT !.exc = "KeyError"]
    ELSE IF FitErrorIn(t, feats)
    THEN [old EXCEPT !.exc = "ValueError", !.model = Unfitted, !.is_trained = TRUE]
    ELSE [exc |-> "", model |-> Fitted(t, feats), r2 |-> Score(t, feats),
          is_trained |-> TRUE]

\* train_model after the load, statement by statement: the exception that
\* ends it (if any) and the attributes as it leaves them
train_outcome(t, feats, old) ==
    IF KeyErrorIn(t, feats) THEN [old EXCEPT !.exc = "KeyError"]
    ELSE IF FitErrorIn(t, feats)
    THEN [old EXCEPT !.exc = "ValueError", !.model = Unfitted]
    ELSE [exc |-> "", model |-> Fitted(t, feats), r2 |-> Score(t, feats),
          is_trained |-> TRUE]

-----------------------------------------------------------------------------
(* predict_price and save_prediction: the dict, the inference, the line *)

\* values[feat] = val on a dict kept as <<key, value>> pairs in insertion
\* order: a key already present keeps its place and takes the new value
dict_set(d, key, val) ==
    IF \E i \in 1..Len(d) : d[i][1] = key
    THEN [i \in 1..Len(d) |-> IF d[i][1] = key THEN <<key, val>> ELSE d[i]]
    ELSE Append(d, <<key, val>>)

Keys(d) == [i \in 1..Len(d) |-> d[i][1]]

\* self.model.predict(pd.DataFrame([values])) raises ValueError unless the
\* frame's columns are the columns the estimator was fitted on
PredictErrorIn(m, d) ==
    m.tag # "LinearRegression" \/ ~m.fitted \/ Keys(d) # m.feature_names_in

\* self.model.predict(input_df)[0], in cents
Predicted(m, d) ==
    m.intercept + SumSeq([i \in 1..Len(d) |-> m.coef[i] * d[i][2] * 10])

\* str(v) of a float given in tenths
FloatStr(v) == ToString(v \div 10) \o "." \o ToString(v % 10)

Pad(n, width) ==
    IF width = 3 /\ n < 10 THEN "00" \o ToString(n)
    ELSE IF (width = 3 /\ n < 100) \/ (width = 2 /\ n < 10) THEN "0" \o ToString(n)
    ELSE ToString(n)

RECURSIVE Grouped(_)
Grouped(n) ==
    IF n < 1000 THEN ToString(n)
    ELSE Grouped(n \div 1000) \o "," \o Pad(n % 1000, 3)

\* f"${predicted_price:,.2f}" of a price given in cents
Money(cents) == "$" \o Grouped(cents \div 100) \o "." \o Pad(cents % 100, 2)

\* datetime.now().strftime("%Y-%m-%d %H:%M:%S")
Clock == {"2026-11-01 10:00:00"}

\* the line save_prediction writes
line_of(timestamp, input_values, predicted_price) ==
    [timestamp    |-> timestamp,
     features_str |-> [i \in 1..Len(input_values) |->
                         input_values[i][1] \o "=" \o FloatStr(input_values[i][2])],
     predicted    |-> "Predicted: " \o Money(predicted_price),
     eol          |-> "\n"]

append_line_truncating(file, line) == [exists |-> TRUE, lines |-> <<line>>]

\* open(self.data_file, 'a') then f.write(line)
append_line(file, line) == [exists |-> TRUE, lines |-> Append(file.lines, line)]

\* enumerate(lines, 1) with line.strip()
shown_of(lines) ==
    [i \in 1..Len(lines) |-> [n |-> i, text |-> [lines[i] EXCEPT !.eol = ""]]]

-----------------------------------------------------------------------------
(* What the user may type *)

\* at "Enter your choice (1-6): "
ChoiceLines ==
    {<<"1">>, <<"2">>, <<"3">>, <<"4">>, <<"5">>, <<"6">>, <<"7">>, <<>>,
     <<" ", "4", " ">>}

\* at the feature-selection prompt, in a whole session
MenuLines ==
    {<<>>, <<" ">>, <<"1">>, <<"3">>, <<"2", ",", "1">>, <<"1", ",", "1">>,
     <<"2", ",", "a">>, <<"2", ",", "0">>, <<"0">>, <<" ", "2", ",", " ", "9", "9">>}

\* at the feature-selection prompt: every line of at most MaxLen characters
Alphabet == {"0", "1", "2", ",", "a", " ", "-"}

AllLines == UNION {[1..n -> Alphabet] : n \in 0..MaxLen}

\* at a feature-value prompt
PromptLines == {<<"3">>, <<" ", "3", ".", "0">>, <<"a", "b", "c">>, <<>>}

-----------------------------------------------------------------------------
(* The session *)

Say(msg) == [msg |-> msg, shown |-> <<>>]

\* what is on the console when input(f"    {feat}: ") blocks
Prompt(msg, feat) == [msg |-> msg, shown |-> <<feat>>]

Init ==
    /\ csv \in Files
    /\ data_file \in {[exists |-> FALSE, lines |-> <<>>],
                      [exists |-> TRUE, lines |-> <<>>]}
    /\ df = None
    /\ model = None
    /\ features = DEFAULT_FEATURES
    /\ r2 = None
    /\ is_trained = FALSE
    /\ pc = "menu"
    /\ user_input = <<>>
    /\ fi = 0
    /\ values = <<>>
    /\ ret = None
    /\ out = Say("")
    /\ reads = 0
    /\ done = <<>>

\* choice = input(...).strip() compares equal to c
Choice(c) == pc = "menu" /\ \E raw \in ChoiceLines : strip(raw) = c

needs_load_always(d) == TRUE

\* if self.df is None
needs_load(d) == d = None

not_trained_never(trained) == FALSE

\* if not self.is_trained
not_trained(trained) == ~trained

\* an exception nothing catches ends main() and the process with a traceback
Crash(exception) ==
    /\ pc' = "crashed"
    /\ out' = Say("Traceback: " \o exception)

\* if self.df is None: self.load_dataset()
Loaded == IF needs_load(df) THEN read_csv(csv) ELSE [ok |-> TRUE, df |-> df]

ReadsAfter == IF needs_load(df) THEN reads + 1 ELSE reads

\* choice 1: display_dataset_info
DisplayDatasetInfo ==
    /\ Choice(<<"1">>)
    /\ reads' = ReadsAfter
    /\ IF Loaded.ok
       THEN /\ df' = Loaded.df
            /\ out' = [msg |-> "KC HOUSE DATASET INFORMATION",
                       shown |-> ColumnNames(Loaded.df)]
            /\ pc' = "menu"
       ELSE /\ Crash("FileNotFoundError")
            /\ df' = df
    /\ UNCHANGED <<csv, data_file, model, features, r2, is_trained,
                   user_input, fi, values, ret, done>>

\* choice 2: select_features up to its input()
SelectBegin ==
    /\ Choice(<<"2">>)
    /\ reads' = ReadsAfter
    /\ IF Loaded.ok
       THEN /\ df' = Loaded.df
            /\ out' = [msg |-> "FEATURE SELECTION",
                       shown |-> get_numeric_columns(Loaded.df)]
            /\ pc' = "select"
       ELSE /\ Crash("FileNotFoundError")
            /\ df' = df
    /\ user_input' = <<>>
    /\ UNCHANGED <<csv, data_file, model, features, r2, is_trained,
                   fi, values, ret, done>>

\* select_features from its input() to its return
SelectEnter(lines) ==
    /\ pc = "select"
    /\ \E raw \in lines :
         LET res == select_result(strip(raw), get_numeric_columns(df))
         IN  /\ user_input' = strip(raw)
             /\ features' = res.features
             /\ out' = Say(res.msg)
    /\ is_trained' = select_is_trained(is_trained)
    /\ pc' = "menu"
    /\ UNCHANGED <<csv, data_file, df, model, r2, fi, values, ret, reads, done>>

SelectFeatures == SelectEnter(MenuLines)

SelectAnyLine == SelectEnter(AllLines)

\* choice 3: train_model
TrainModel ==
    /\ Choice(<<"3">>)
    /\ reads' = ReadsAfter
    /\ IF ~Loaded.ok
       THEN /\ Crash("FileNotFoundError")
            /\ UNCHANGED <<df, model, r2, is_trained>>
       ELSE LET res == train_outcome(Loaded.df, features,
                           [exc |-> "", model |-> model, r2 |-> r2,
                            is_trained |-> is_trained])
            IN  /\ df' = Loaded.df
                /\ model' = res.model
                /\ r2' = res.r2
                /\ is_trained' = res.is_trained
                /\ IF res.exc # ""
                   THEN Crash(res.exc)
                   ELSE /\ out' = Say("MODEL EVALUATION")
                        /\ pc' = "menu"
    /\ UNCHANGED <<csv, data_file, features, user_input, fi, values, ret, done>>

\* choice 4 while not trained: predict_price returns None at once
PredictUntrained ==
    /\ Choice(<<"4">>)
    /\ not_trained(is_trained)
    /\ out' = Say("[!] Model is not trained yet. Please train first.")
    /\ ret' = None
    /\ pc' = "menu"
    /\ UNCHANGED <<csv, data_file, df, model, features, r2, is_trained,
                   user_input, fi, values, reads, done>>

\* choice 4 while trained: predict_price up to its first input()
PredictBegin ==
    /\ Choice(<<"4">>)
    /\ ~not_trained(is_trained)
    /\ Len(data_file.lines) < MaxPred
    /\ values' = <<>>
    /\ fi' = 1
    /\ out' = Prompt("PREDICT HOUSE PRICE", features[1])
    /\ pc' = "predict"
    /\ UNCHANGED <<csv, data_file, df, model, features, r2, is_trained,
                   user_input, ret, reads, done>>

\* a feature-value prompt answered by a line float() rejects
PredictRetry ==
    /\ pc = "predict"
    /\ \E raw \in PromptLines : ~float(raw).ok
    /\ out' = Prompt("Please enter a valid number.", features[fi])
    /\ UNCHANGED <<csv, data_file, df, model, features, r2, is_trained, pc,
                   user_input, fi, values, ret, reads, done>>

\* a feature-value prompt answered by a number: the next prompt, or after
\* the last feature the inference, save_prediction and the return
PredictValue ==
    /\ pc = "predict"
    /\ \E raw \in PromptLines :
         /\ float(raw).ok
         /\ LET vals == dict_set(values, features[fi], float(raw).val)
            IN  IF fi < Len(features)
                THEN /\ values' = vals
                     /\ fi' = fi + 1
                     /\ out' = Prompt("", features[fi + 1])
                     /\ UNCHANGED <<pc, data_file, ret, done>>
                ELSE IF PredictErrorIn(model, vals)
                THEN /\ Crash("ValueError")
                     /\ values' = vals
                     /\ UNCHANGED <<fi, data_file, ret, done>>
                ELSE \E timestamp \in Clock :
                       LET predicted == Predicted(model, vals)
                       IN  /\ data_file' = append_line(data_file,
                                              line_of(timestamp, vals, predicted))
                           /\ ret' = [tag |-> "float", val |-> predicted]
                           /\ done' = Append(done, [values |-> vals,
                                                    predicted |-> predicted])
                           /\ out' = Say("Prediction saved")
                           /\ values' = <<>>
                           /\ fi' = 0
                           /\ pc' = "menu"
    /\ UNCHANGED <<csv, df, model, features, r2, is_trained, user_input, reads>>

\* choice 5: load_predictions
LoadPredictions ==
    /\ Choice(<<"5">>)
    /\ out' = IF ~data_file.exists \/ data_file.lines = <<>>
              THEN Say("No predictions recorded yet.")
              ELSE [msg |-> "PREDICTION HISTORY", shown |-> shown_of(data_file.lines)]
    /\ UNCHANGED <<csv, data_file, df, model, features, r2, is_trained, pc,
                   user_input, fi, values, ret, reads, done>>

\* choice 6: break
Exit ==
    /\ Choice(<<"6">>)
    /\ out' = Say("Goodbye!")
    /\ pc' = "exited"
    /\ UNCHANGED <<csv, data_file, df, model, features, r2, is_trained,
                   user_input, fi, values, ret, reads, done>>

\* any other line at the menu
InvalidChoice ==
    /\ pc = "menu"
    /\ \E raw \in ChoiceLines :
         strip(raw) \notin {<<"1">>, <<"2">>, <<"3">>, <<"4">>, <<"5">>, <<"6">>}
    /\ out' = Say("[!] Invalid choice. Please enter a number between 1 and 6.")
    /\ UNCHANGED <<csv, data_file, df, model, features, r2, is_trained, pc,
                   user_input, fi, values, ret, reads, done>>

Next ==
    \/ DisplayDatasetInfo
    \/ SelectBegin
    \/ SelectFeatures
    \/ TrainModel
    \/ PredictUntrained
    \/ PredictBegin
    \/ PredictRetry
    \/ PredictValue
    \/ LoadPredictions
    \/ Exit
    \/ InvalidChoice

Spec == Init /\ [][Next]_vars

\* feature selection alone, over every line of at most MaxLen characters
NextSelect == SelectBegin \/ SelectAnyLine

SpecSelect == Init /\ [][NextSelect]_vars

-----------------------------------------------------------------------------
(* Properties *)

SelectMsgs ==
    {"Using default features", "Invalid input - using default features.",
     "No valid columns selected - falling back to defaults.", "Selected features"}

NotTrainedMsg == "[!] Model is not trained yet. Please train first."

\* the last thing the process did was to return from select_features
AfterSelect == pc = "menu" /\ out.msg \in SelectMsgs

Available == get_numeric_columns(df)

Tokens == split(user_input)

IntToken(k) == int(strip(Tokens[k])).ok

InRange(k) ==
    /\ IntToken(k)
    /\ 1 <= int(strip(Tokens[k])).val
    /\ int(strip(Tokens[k])).val <= Len(Available)

Lines == data_file.lines

\* C1: every select_features call that returns leaves is_trained false,
\* whatever it was before and whether or not the feature list changed.
C1_SelectResetsTrained ==
    [][(pc = "select" /\ pc' = "menu") => ~is_trained']_vars

\* C1 witness: select_features has just returned after a training, with the
\* very feature list the estimator was fitted on, and is_trained is false.
C1_Witness ==
    /\ AfterSelect
    /\ model.tag = "LinearRegression" /\ model.fitted
    /\ model.feature_names_in = features
    /\ ~is_trained

\* C2: while is_trained is false no step prompts for a feature value, appends
\* to the log or returns a price; the predict_price call made then (the step
\* that prints the not-trained message) returns None, comes back to the menu
\* and leaves features, model, r2, is_trained, df and the log as they were.
C2_UntrainedPredictIsNoOp ==
    [][/\ ~is_trained =>
            /\ pc' # "predict"
            /\ data_file' = data_file
            /\ done' = done
            /\ ret' \in {ret, None}
       /\ out'.msg = NotTrainedMsg =>
            /\ ~is_trained
            /\ ret' = None
            /\ pc' = "menu"
            /\ UNCHANGED <<features, model, r2, is_trained, df, data_file,
                           fi, values, done>>]_vars

\* C2 witness: a prediction was logged, then features were selected again,
\* and a predict_price call has just reported "not trained": the log still
\* holds that one line.
C2_Witness ==
    /\ out.msg = NotTrainedMsg
    /\ ret = None
    /\ ~is_trained
    /\ model.tag = "LinearRegression" /\ model.fitted
    /\ Len(Lines) = 1

\* C3 as stated: a line with an in-range index and a token that is an
\* out-of-range integer or no integer always selects DEFAULT_FEATURES.
C3_AllOrNothing ==
    (/\ AfterSelect
     /\ \E k \in 1..Len(Tokens) : InRange(k)
     /\ \E k \in 1..Len(Tokens) : ~InRange(k))
    => features = DEFAULT_FEATURES

\* C3 amended: a line with an in-range index and a token that is no integer
\* selects DEFAULT_FEATURES and reports invalid input.
C3_NonIntegerFallsBack ==
    (/\ AfterSelect
     /\ \E k \in 1..Len(Tokens) : InRange(k)
     /\ \E k \in 1..Len(Tokens) : ~IntToken(k))
    => /\ features = DEFAULT_FEATURES
       /\ out.msg = "Invalid input - using default features."

\* C3 witness: such a line was typed and the defaults were selected.
C3_Witness ==
    /\ AfterSelect
    /\ \E k \in 1..Len(Tokens) : InRange(k)
    /\ \E k \in 1..Len(Tokens) : ~IntToken(k)
    /\ features = DEFAULT_FEATURES

\* C4: when the line is not empty and every token is an integer, features
\* is the names available[i-1] of the in-range indices, in the order typed,
\* repeats kept and out-of-range indices dropped; DEFAULT_FEATURES only when
\* no index is in range.
C4_SelectionInOrder ==
    (/\ AfterSelect
     /\ user_input # <<>>
     /\ \A k \in 1..Len(Tokens) : IntToken(k))
    => LET keep   == {k \in 1..Len(Tokens) : InRange(k)}
           kth(j) == CHOOSE k \in keep : Cardinality({g \in keep : g <= k}) = j
       IN  IF keep = {} THEN features = DEFAULT_FEATURES
           ELSE /\ Len(features) = Cardinality(keep)
                /\ \A j \in 1..Len(features) :
                     features[j] = Available[int(strip(Tokens[kth(j)])).val]

\* C4 witness: integers only, one of them out of range and dropped, the
\* in-range ones selected.
C4_Witness ==
    /\ AfterSelect
    /\ user_input # <<>>
    /\ \A k \in 1..Len(Tokens) : IntToken(k)
    /\ \E k \in 1..Len(Tokens) : InRange(k)
    /\ \E k \in 1..Len(Tokens) : ~InRange(k)
    /\ out.msg = "Selected features"
    /\ Len(features) < Len(Tokens)

\* C5 as stated: once the dataset is loaded, features is non-empty and each
\* of its names is one of get_numeric_columns().
C5_FeaturesAreNumericColumns ==
    /\ features # <<>>
    /\ df # None => \A i \in 1..Len(features) : features[i] \in Range(Available)

\* C6: the log and the session's predictions correspond line by line (each
\* line holds that prediction's name=value pairs and its price), only a
\* predict_price call that returns a price writes to the file and it adds
\* exactly one line after the existing ones, and load_predictions shows
\* exactly those lines numbered 1..N.
C6_LogRoundTrip ==
    /\ [](/\ Len(Lines) = Len(done)
          /\ \A i \in 1..Len(Lines) :
               /\ Len(Lines[i].features_str) = Len(done[i].values)
               /\ \A j \in 1..Len(done[i].values) :
                    Lines[i].features_str[j] =
                      done[i].values[j][1] \o "=" \o FloatStr(done[i].values[j][2])
               /\ Lines[i].predicted = "Predicted: " \o Money(done[i].predicted)
          /\ out.msg = "No predictions recorded yet." => done = <<>>
          /\ out.msg = "PREDICTION HISTORY" =>
               /\ Len(out.shown) = Len(done) /\ done # <<>>
               /\ \A i \in 1..Len(out.shown) :
                    /\ out.shown[i].n = i
                    /\ out.shown[i].text.features_str = Lines[i].features_str
                    /\ out.shown[i].text.predicted = Lines[i].predicted
                    /\ out.shown[i].text.timestamp = Lines[i].timestamp)
    /\ [][/\ (pc = "predict" /\ pc' = "menu") => Len(Lines') = Len(Lines) + 1
          /\ \/ data_file' = data_file
             \/ /\ pc = "predict" /\ pc' = "menu"
                /\ Len(Lines') = Len(Lines) + 1
                /\ SubSeq(Lines', 1, Len(Lines)) = Lines]_vars

\* C6 witness: two predictions with different feature lists were logged and
\* the history shows both, in the order written.
C6_Witness ==
    /\ out.msg = "PREDICTION HISTORY"
    /\ Len(out.shown) = 2
    /\ Lines[1] # Lines[2]
    /\ out.shown[1].text.features_str = Lines[1].features_str
    /\ Keys(done[1].values) # Keys(done[2].values)

\* C7 as stated: the process never terminates abnormally; it is at the menu,
\* at a prompt, or has ended through choice 6.
C7_NeverCrashes == pc \in {"menu", "select", "predict", "exited"}

\* C8: pd.read_csv is called at most once in a session, and once df is
\* loaded no step reads the file again or reassigns df.
C8_DatasetReadOnce ==
    [][/\ reads' <= 1
       /\ df # None => (df' = df /\ reads' = reads)]_vars

\* C8 witness: the table read once has served info, training and a logged
\* prediction.
C8_Witness ==
    /\ df # None
    /\ reads = 1
    /\ is_trained
    /\ done # <<>>
    /\ out.msg = "KC HOUSE DATASET INFORMATION"

\* C9: whenever is_trained is true, model is an estimator fitted on exactly
\* the current features and r2 is that fit's score; prompts for a prediction
\* are only made then, and train_model never leaves is_trained true with an
\* estimator that is not fitted.
C9_TrainedMeansFittedOnFeatures ==
    /\ is_trained =>
         /\ df # None
         /\ model.tag = "LinearRegression" /\ model.fitted
         /\ model.feature_names_in = features
         /\ model = Fitted(df, features)
         /\ r2 = Score(df, features)
    /\ pc = "predict" => is_trained
    /\ (model.tag = "LinearRegression" /\ ~model.fitted) => ~is_trained

\* C9 witness: after a logged prediction the features were selected again
\* and the model was trained again, on another feature list.
C9_Witness ==
    /\ is_trained
    /\ done # <<>>
    /\ Keys(done[1].values) # features
    /\ model.feature_names_in = features

\* C10 as stated: a predict_price call that has started prompting ends only
\* by returning to the menu with one value per feature and one more line in
\* the log.
C10_PromptsEndInLoggedPrediction ==
    [][(pc = "predict" /\ pc' # "predict") =>
         /\ pc' = "menu"
         /\ Len(Lines') = Len(Lines) + 1
         /\ Len(done'[Len(done')].values) = Len(features)]_vars

=============================================================================
